---- MODULE Spec2Model ----
(***************************************************************************)
(* Model of the coordination core of the vSphere shared volume plugin      *)
(* (client_plugin/drivers/shared/etcdops.go): the etcd key-value store     *)
(* holding the per-volume keys, the watch on the global refcount prefix,   *)
(* and the event handler every manager runs, which drives the SMB server   *)
(* lifecycle through compare-and-put transitions of the volume state.      *)
(***************************************************************************)
EXTENDS Integers, Sequences, FiniteSets, TLC

(* ------------------------------ bounds -------------------------------- *)

\* number of hosts running a watcher
MaxHosts == 2
\* number of volumes whose keys exist in the store
NumVols == 1
\* number of writes of a global refcount key (length of the watch stream)
MaxEvents == 3
\* largest global refcount written by the refcount logic
MaxRef == 2
\* number of volume names the callers of the metadata API use
NumApiVols == 2
\* number of metadata API calls made
MaxCalls == 3
\* number of etcd members of the cluster a manager joins, this node left out
MaxMembers == 2

(* ---------------------------- constants ------------------------------- *)

etcdPrefixState == "SVOLS_stat_"
etcdPrefixGRef == "SVOLS_gref_"
etcdPrefixInfo == "SVOLS_info_"
etcdSingleRef == "1"
etcdNoRef == "0"

volStateReady == "Ready"
volStateIntermediate == "Intermediate"
volStateMounted == "Mounted"
volStateError == "Error"

VolumeDoesNotExistError == "No such volume"
etcdClientCreateError == "Failed to create etcd client"

EventTypePut == "PUT"
EventTypeDelete == "DELETE"

etcdClientPort == ":2379"
etcdPeerPort == ":2380"
etcdScheme == "http://"
etcdClusterStateNew == "new"
etcdClusterStateExisting == "existing"
\* requestTimeout and checkSleepDuration, in seconds
requestTimeout == 5
checkSleepDuration == 1

(* ----------------------------- helpers -------------------------------- *)

Hosts == 1..MaxHosts

Digits == <<"0", "1", "2", "3", "4", "5", "6", "7", "8", "9">>

\* decimal encoding of a small count, as the refcount logic stores it
Itoa(n) == Digits[n + 1]

VolName(i) == "vol" \o Itoa(i)

Vols == {VolName(i) : i \in 1..NumVols}

\* the count a stored decimal string stands for
Atoi(str) == CHOOSE n \in 0..9 : Digits[n + 1] = str

\* strings.TrimPrefix
TrimPrefix(s, prefix) ==
    IF Len(s) >= Len(prefix) /\ SubSeq(s, 1, Len(prefix)) = prefix
    THEN SubSeq(s, Len(prefix) + 1, Len(s))
    ELSE s

StateKey(v) == etcdPrefixState \o v

GRefKey(v) == etcdPrefixGRef \o v

InfoKey(v) == etcdPrefixInfo \o v

\* the volume names the callers of the metadata API use
ApiVols == {VolName(i) : i \in 1..NumApiVols}

\* the three keys of a volume, as DeleteVolMetadata lists them
VolKeys(name) == <<StateKey(name), GRefKey(name), InfoKey(name)>>

ApiKeys == UNION {{StateKey(v), GRefKey(v), InfoKey(v)} : v \in ApiVols}

VARIABLES
    store,        \* the etcd key space: a function from the present keys to values
    events,       \* the watch stream of the prefix etcdPrefixGRef, in revision order
    cursor,       \* cursor[h]: number of events host h's watcher has handled
    pc,           \* pc[h]: where host h's etcdEventHandler stands
    serving,      \* serving[h]: volumes for which an SMB server runs on host h
    smbCalls,     \* every startSMBServer/stopSMBServer call made so far
    faults,       \* whether store requests may fail in this behaviour
    succeeded,    \* succeeded[h]: result of the claim of the handler host h is in
    putCtx,       \* whether the latest event was put with every watcher quiet and
                  \* STATE at the value its handler claims from
    nfa,          \* nfa[v]: positions of the documented lifecycle after STATE:v's history
    nfaAlt,       \* nfaAlt[v]: the same for the lifecycle whose groups alternate
    enteredFrom,  \* enteredFrom[v]: value STATE:v had before it last became Intermediate
    lastCall,     \* lastCall[v]: the latest SMB call made for v, by any host
    api,          \* the latest metadata API call: its arguments and what it gave
    open,         \* number of store clients created by API calls and still open
    lastOp,       \* lastOp[k]: the latest API call that changed key k, while no
                  \* other call has changed k since
    ncalls,       \* number of metadata API calls made so far
    boot          \* Init of the kv store on one node: where it stands, what it
                  \* was told, what it has called and started

\* the state of the watchers and of the SMB servers
watcherVars == <<events, putCtx, cursor, pc, succeeded, serving, smbCalls, faults,
                 nfa, nfaAlt, enteredFrom, lastCall>>

\* the state the metadata API calls leave behind, besides the store
apiVars == <<api, open, lastOp, ncalls>>

vars == <<store, events, putCtx, cursor, pc, succeeded, serving, smbCalls, faults,
          nfa, nfaAlt, enteredFrom, lastCall, api, open, lastOp, ncalls, boot>>

(* --------------------------- the key space ---------------------------- *)

Present(s, key) == key \in DOMAIN s

\* OpPut
Put(s, key, value) ==
    [k \in (DOMAIN s) \cup {key} |-> IF k = key THEN value ELSE s[k]]

\* value of STATE:v, "" when the key is absent
StateOf(s, v) == IF Present(s, StateKey(v)) THEN s[StateKey(v)] ELSE ""

\* outcomes of one store request: it fails only when faults are allowed
StoreErrs == IF faults THEN BOOLEAN ELSE {FALSE}

\* Txn().If(Value(key) = oldVal).Then(OpPut(key, newVal)).Commit(); a compare
\* of the value of an absent key fails; an error is swallowed and gives false
CompareAndPutAlways(s, key, oldVal, newVal, err) ==
    [succeeded |-> TRUE, kv |-> Put(s, key, newVal)]

CompareAndPutOnMiss(s, key, oldVal, newVal, err) ==
    IF err
    THEN [succeeded |-> FALSE, kv |-> s]
    ELSE [succeeded |-> Present(s, key) /\ s[key] = oldVal,
          kv |-> Put(s, key, newVal)]

CompareAndPut(s, key, oldVal, newVal, err) ==
    IF err
    THEN [succeeded |-> FALSE, kv |-> s]
    ELSE IF Present(s, key) /\ s[key] = oldVal
         THEN [succeeded |-> TRUE, kv |-> Put(s, key, newVal)]
         ELSE [succeeded |-> FALSE, kv |-> s]

(* ------------------------ lifecycle bookkeeping ----------------------- *)

\* The expression  Ready (-> Intermediate -> (Mounted | Error))*
\*                       (-> Intermediate -> (Ready | Error))*
\* as an automaton read after the leading Ready: P1 and P2 are the positions
\* before a group of the first and of the second star, P1I and P2I the
\* positions inside such a group, after its Intermediate.
NfaDelta ==
    { <<"P1", volStateIntermediate, "P1I">>,
      <<"P1", volStateIntermediate, "P2I">>,
      <<"P2", volStateIntermediate, "P2I">>,
      <<"P1I", volStateMounted, "P1">>,
      <<"P1I", volStateError, "P1">>,
      <<"P2I", volStateReady, "P2">>,
      <<"P2I", volStateError, "P2">> }

\* The expression  Ready ( (-> Intermediate -> (Mounted | Error))
\*                       | (-> Intermediate -> (Ready | Error)) )*
\* in which the two groups may follow each other in any order.
NfaAltDelta ==
    { <<"P", volStateIntermediate, "P1I">>,
      <<"P", volStateIntermediate, "P2I">>,
      <<"P1I", volStateMounted, "P">>,
      <<"P1I", volStateError, "P">>,
      <<"P2I", volStateReady, "P">>,
      <<"P2I", volStateError, "P">> }

NfaStep(delta, S, val) ==
    {t[3] : t \in {d \in delta : d[1] \in S /\ d[2] = val}}

\* record every change of a STATE key made by the step
Observe ==
    /\ nfa' = [v \in Vols |->
                 IF StateOf(store', v) = StateOf(store, v)
                 THEN nfa[v]
                 ELSE NfaStep(NfaDelta, nfa[v], StateOf(store', v))]
    /\ nfaAlt' = [v \in Vols |->
                 IF StateOf(store', v) = StateOf(store, v)
                 THEN nfaAlt[v]
                 ELSE NfaStep(NfaAltDelta, nfaAlt[v], StateOf(store', v))]
    /\ enteredFrom' = [v \in Vols |->
                 IF /\ StateOf(store', v) = volStateIntermediate
                    /\ StateOf(store, v) # volStateIntermediate
                 THEN StateOf(store, v)
                 ELSE enteredFrom[v]]

(* ------------------------------- Init --------------------------------- *)

\* every volume has been created: its three keys were written in one
\* transaction, state Ready and global refcount 0; the watchers are running
InitStore ==
    [k \in {StateKey(v) : v \in Vols} \cup {GRefKey(v) : v \in Vols}
           \cup {InfoKey(v) : v \in Vols} |->
        IF k \in {StateKey(v) : v \in Vols} THEN volStateReady
        ELSE IF k \in {GRefKey(v) : v \in Vols} THEN etcdNoRef
        ELSE "info"]

\* no metadata API call has been made
NoCall ==
    [op |-> "", entries |-> << >>, keys |-> << >>, name |-> "", key |-> "",
     oldVal |-> "", newVal |-> "", client |-> "", reply |-> "", ret |-> "",
     out |-> << >>]

\* Init of the kv store is not under way
NoBoot ==
    [pc |-> "", role |-> "", members |-> << >>, lresp |-> << >>,
     existing |-> FALSE, initCluster |-> "", calls |-> << >>, lines |-> << >>,
     polls |-> 0, client |-> FALSE, watchers |-> 0, fail |-> "", ret |-> ""]

InitCalls ==
    /\ boot = NoBoot
    /\ api = NoCall
    /\ open = 0
    /\ lastOp = [k \in ApiKeys |-> [op |-> "", value |-> ""]]
    /\ ncalls = 0

InitCommon ==
    /\ store = InitStore
    /\ InitCalls
    /\ events = << >>
    /\ putCtx = FALSE
    /\ cursor = [h \in Hosts |-> 0]
    /\ pc = [h \in Hosts |-> "idle"]
    /\ succeeded = [h \in Hosts |-> FALSE]
    /\ serving = [h \in Hosts |-> {}]
    /\ smbCalls = {}
    /\ nfa = [v \in Vols |-> {"P1"}]
    /\ nfaAlt = [v \in Vols |-> {"P"}]
    /\ enteredFrom = [v \in Vols |-> ""]
    /\ lastCall = [v \in Vols |-> [op |-> "", ok |-> FALSE]]

Init == InitCommon /\ faults = FALSE

InitFaults == InitCommon /\ faults = TRUE

\* the store before any volume is created, for the metadata API on its own:
\* no key, no event, the watchers idle
InitAPI ==
    /\ store = [k \in {} |-> ""]
    /\ InitCalls
    /\ events = << >>
    /\ putCtx = FALSE
    /\ cursor = [h \in Hosts |-> 0]
    /\ pc = [h \in Hosts |-> "idle"]
    /\ succeeded = [h \in Hosts |-> FALSE]
    /\ serving = [h \in Hosts |-> {}]
    /\ smbCalls = {}
    /\ nfa = [v \in Vols |-> {"P1"}]
    /\ nfaAlt = [v \in Vols |-> {"P"}]
    /\ enteredFrom = [v \in Vols |-> ""]
    /\ lastCall = [v \in Vols |-> [op |-> "", ok |-> FALSE]]
    /\ faults = FALSE

(* ------------------- the refcount logic (environment) ----------------- *)

\* the watch event of a put, with the previous key-value when there is one
PutEvent(s, key, value) ==
    [type |-> EventTypePut, key |-> key, value |-> value,
     hasPrev |-> Present(s, key),
     prev |-> IF Present(s, key) THEN s[key] ELSE ""]

\* every watcher has handled every event delivered so far
Quiet == \A h \in Hosts : pc[h] = "idle" /\ cursor[h] = Len(events)

\* The refcount logic of a host mounts or unmounts volume v: it adds delta
\* to the global refcount and writes it back, WriteVolMetadata with the
\* single entry (GREF:v, count), which is one OpPut.  The put is delivered
\* to every watcher of the prefix.
WriteGRef(v, delta) ==
    /\ Len(events) < MaxEvents
    /\ Present(store, GRefKey(v))
    /\ Atoi(store[GRefKey(v)]) + delta \in 0..MaxRef
    /\ \E err \in StoreErrs :
         IF err
         THEN UNCHANGED <<store, events, putCtx>>
         ELSE LET value == Itoa(Atoi(store[GRefKey(v)]) + delta)
              IN  /\ store' = Put(store, GRefKey(v), value)
                  /\ events' = Append(events, PutEvent(store, GRefKey(v), value))
                  /\ putCtx' = (/\ Quiet
                                /\ \/ /\ value = etcdSingleRef
                                      /\ delta = 1
                                      /\ StateOf(store, v) = volStateReady
                                   \/ /\ value = etcdNoRef
                                      /\ delta = -1
                                      /\ StateOf(store, v) = volStateMounted)
    /\ Observe
    /\ UNCHANGED <<cursor, pc, succeeded, serving, smbCalls, faults, lastCall>>
    /\ UNCHANGED apiVars
    /\ UNCHANGED boot

(* --------------------------- etcdEventHandler ------------------------- *)

\* watcher observes global refcount from 0 to 1
IsSingleRefAnyPrev(ev) ==
    /\ ev.type = EventTypePut
    /\ ev.value = etcdSingleRef

IsSingleRef(ev) ==
    /\ ev.type = EventTypePut
    /\ ev.value = etcdSingleRef
    /\ ev.hasPrev
    /\ ev.prev = etcdNoRef

\* watcher observes global refcount from 1 to 0
IsNoRef(ev) ==
    /\ ev.type = EventTypePut
    /\ ev.value = etcdNoRef
    /\ ev.hasPrev
    /\ ev.prev = etcdSingleRef

\* the event host h is handling, or is about to take
CurEvent(h) == events[cursor[h] + 1]

\* volName := strings.TrimPrefix(string(ev.Kv.Key), etcdPrefixGRef)
CurVolFirst(h) == VolName(1)

CurVol(h) == TrimPrefix(CurEvent(h).key, etcdPrefixGRef)

\* leave the handler: the watcher loop takes the next event
ReturnSkip(h) ==
    /\ pc' = [pc EXCEPT ![h] = "idle"]
    /\ cursor' = [cursor EXCEPT ![h] = @ + 2]

Return(h) ==
    /\ pc' = [pc EXCEPT ![h] = "idle"]
    /\ cursor' = [cursor EXCEPT ![h] = @ + 1]

\* the state the claim of an event is made from: Ready for 0 -> 1,
\* Mounted for 1 -> 0
ClaimFromError(ev) == IF IsSingleRef(ev) THEN volStateReady ELSE volStateError

ClaimFromReady(ev) == volStateReady

ClaimFrom(ev) == IF IsSingleRef(ev) THEN volStateReady ELSE volStateMounted

\* the state the claim moves the volume to
ClaimToMounted == volStateMounted

ClaimTo == volStateIntermediate

\* the state written after startSMBServer returned true
StartDoneStateReady == volStateReady

StartDoneState == volStateMounted

\* the state written after stopSMBServer returned true
StopDoneStateMounted == volStateMounted

StopDoneState == volStateReady

\* the state written after the SMB call returned false
FailStateReady == volStateReady

FailState == volStateError

\* if !succeeded { return }: where the handler goes after its claim
AfterClaimNoReturn(ev, ok) == IF IsSingleRef(ev) THEN "start" ELSE "stop"

AfterClaim(ev, ok) ==
    IF ok THEN (IF IsSingleRef(ev) THEN "start" ELSE "stop") ELSE "idle"

\* the watcher takes the next event; events that are no boundary transition
\* are dropped, for the others the handler claims the volume
Claim(h) ==
    /\ pc[h] = "idle"
    /\ cursor[h] < Len(events)
    /\ LET ev == CurEvent(h)
           volName == CurVol(h)
       IN  IF IsSingleRef(ev) \/ IsNoRef(ev)
           THEN \E err \in StoreErrs :
                  LET r == CompareAndPut(store, etcdPrefixState \o volName,
                               ClaimFrom(ev), ClaimTo, err)
                      to == AfterClaim(ev, r.succeeded)
                  IN  /\ store' = r.kv
                      /\ succeeded' = [succeeded EXCEPT ![h] = r.succeeded]
                      /\ IF to = "idle"
                         THEN Return(h)
                         ELSE /\ pc' = [pc EXCEPT ![h] = to]
                              /\ cursor' = cursor
           ELSE /\ store' = store
                /\ succeeded' = [succeeded EXCEPT ![h] = FALSE]
                /\ Return(h)
    /\ Observe
    /\ UNCHANGED <<events, putCtx, serving, smbCalls, faults, lastCall>>
    /\ UNCHANGED apiVars
    /\ UNCHANGED boot

\* the outcomes startSMBServer(volName) can have on host h: true iff the
\* server is operational afterwards
StartOutcomes(h, v) == BOOLEAN

\* the outcomes stopSMBServer(volName) can have on host h: true iff no
\* server for the volume is left on the host afterwards
StopOutcomes(h, v) == IF v \in serving[h] THEN BOOLEAN ELSE {TRUE}

\* the SMB call of the handler, and the compare-and-put that follows a
\* successful call: Intermediate -> doneState; when the call or that
\* compare-and-put fails the handler goes on to set Error
CallSMB(h, op, ok, doneState) ==
    /\ serving' = [serving EXCEPT ![h] =
           IF (op = "Start") = ok THEN @ \cup {CurVol(h)} ELSE @ \ {CurVol(h)}]
    /\ smbCalls' = smbCalls \cup
           {[ev |-> cursor[h] + 1, host |-> h, op |-> op,
             vol |-> CurVol(h), ok |-> ok]}
    /\ lastCall' = [lastCall EXCEPT ![CurVol(h)] = [op |-> op, ok |-> ok]]
    /\ IF ok
       THEN \E err \in StoreErrs :
              LET r == CompareAndPut(store, etcdPrefixState \o CurVol(h),
                           volStateIntermediate, doneState, err)
              IN  /\ store' = r.kv
                  /\ IF r.succeeded
                     THEN /\ Return(h)
                          /\ succeeded' = [succeeded EXCEPT ![h] = FALSE]
                     ELSE /\ pc' = [pc EXCEPT ![h] = "error"]
                          /\ UNCHANGED <<cursor, succeeded>>
       ELSE /\ pc' = [pc EXCEPT ![h] = "error"]
            /\ UNCHANGED <<store, cursor, succeeded>>
    /\ Observe
    /\ UNCHANGED <<events, putCtx, faults>>
    /\ UNCHANGED apiVars
    /\ UNCHANGED boot

\* if e.driver.startSMBServer(volName) { ... Intermediate -> Mounted ... }
StartSMB(h) ==
    /\ pc[h] = "start"
    /\ \E ok \in StartOutcomes(h, CurVol(h)) :
         CallSMB(h, "Start", ok, StartDoneState)

\* if e.driver.stopSMBServer(volName) { ... Intermediate -> Ready ... }
StopSMB(h) ==
    /\ pc[h] = "stop"
    /\ \E ok \in StopOutcomes(h, CurVol(h)) :
         CallSMB(h, "Stop", ok, StopDoneState)

\* the SMB call failed or the completing compare-and-put failed:
\* Intermediate -> Error, whose result is ignored
SetError(h) ==
    /\ pc[h] = "error"
    /\ \E err \in StoreErrs :
         store' = CompareAndPut(store, etcdPrefixState \o CurVol(h),
                      volStateIntermediate, FailState, err).kv
    /\ Return(h)
    /\ succeeded' = [succeeded EXCEPT ![h] = FALSE]
    /\ Observe
    /\ UNCHANGED <<events, putCtx, serving, smbCalls, faults, lastCall>>
    /\ UNCHANGED apiVars
    /\ UNCHANGED boot

etcdEventHandler(h) ==
    \/ Claim(h)
    \/ StartSMB(h)
    \/ StopSMB(h)
    \/ SetError(h)

(* ---------------------------- metadata API ---------------------------- *)

\* the values callers write to a STATE key
StateValues == {volStateReady, volStateMounted}

\* the i-th smallest member of a set of indices
Nth(I, i) == CHOOSE j \in I : Cardinality({k \in I : k < j}) = i - 1

\* the members of seq at the indices I, in the order of seq
Pick(seq, I) == [i \in 1..Cardinality(I) |-> seq[Nth(I, i)]]

Reverse(seq) == [i \in 1..Len(seq) |-> seq[Len(seq) + 1 - i]]

\* the kvPairs of a volume whose state is x and whose refcount is 0
VolEntries(v, x) ==
    << [key |-> StateKey(v), value |-> x],
       [key |-> GRefKey(v), value |-> etcdNoRef],
       [key |-> InfoKey(v), value |-> "info"] >>

\* the keys one call names: none, the state, the refcount, or all three keys
\* of a volume
Shapes == {{}, {1}, {2}, {1, 2, 3}}

\* the entries of a WriteVolMetadata call: kvPairs of one volume, each key
\* at most once; the empty list is among them
WriteInputs ==
    {Pick(VolEntries(v, x), I) : v \in ApiVols, x \in StateValues, I \in Shapes}

\* the keys of a ReadVolMetadata call: keys of one volume, in the order of
\* VolKeys or, for all three, in the opposite order
ReadInputs ==
    {Pick(VolKeys(v), I) : v \in ApiVols, I \in Shapes}
        \cup {Reverse(VolKeys(v)) : v \in ApiVols}

\* createEtcdClient gives a client (TRUE) or nil (FALSE): nil when docker
\* Info fails or no remote manager accepts a connection
ClientOutcomes == BOOLEAN

\* what the store does with one request: it applies it and answers, it
\* answers with an error and applies nothing, or it never answers
Replies == {"ok", "err", "none"}

\* how a call that creates its client can go: without a client no request
\* is sent
CallOutcomes ==
    {o \in [client : ClientOutcomes, reply : Replies] :
        ~o.client => o.reply = "ok"}

\* what a caller waiting for the answer gets: with a deadline on the context
\* a missing answer is an error, with context.TODO() the caller waits on
Await(reply, deadline) ==
    IF reply = "none"
    THEN (IF deadline THEN "err" ELSE "blocked")
    ELSE reply

\* a transaction that stores the value of its first put under every key
TxnPutsFirstValue(s, entries) ==
    [k \in (DOMAIN s) \cup {entries[i].key : i \in 1..Len(entries)} |->
        IF k \in {entries[i].key : i \in 1..Len(entries)}
        THEN entries[1].value
        ELSE s[k]]

\* Txn().Then(OpPut...).Commit(): every put of the list in one revision
TxnPuts(s, entries) ==
    LET ks == {entries[i].key : i \in 1..Len(entries)}
    IN  [k \in (DOMAIN s) \cup ks |->
            IF k \in ks
            THEN entries[CHOOSE i \in 1..Len(entries) : entries[i].key = k].value
            ELSE s[k]]

\* the store after the write: a transaction for more than one entry, a
\* single put for one
WriteStoreFirst(s, entries) == Put(s, entries[1].key, entries[1].value)

WriteStore(s, entries) ==
    IF Len(entries) > 1
    THEN TxnPuts(s, entries)
    ELSE Put(s, entries[1].key, entries[1].value)

\* WriteVolMetadata: with no client, or with no entry (ops[0]), the call
\* panics; there is no deadline on the request
WriteVolMetadata(s, entries, client, reply) ==
    IF ~client \/ Len(entries) = 0
    THEN [ret |-> "crash", kv |-> s]
    ELSE IF Await(reply, FALSE) = "ok"
         THEN [ret |-> "ok", kv |-> WriteStore(s, entries)]
         ELSE [ret |-> Await(reply, FALSE), kv |-> s]

\* the loop over the responses of the read transaction: an entry for every
\* key found, in the order of the request, and the number of keys missed
RECURSIVE ReadLoop(_, _)
ReadLoop(s, keys) ==
    IF Len(keys) = 0
    THEN [entries |-> << >>, missedCount |-> 0]
    ELSE LET r == ReadLoop(s, Tail(keys))
         IN  IF ~Present(s, Head(keys))
             THEN [entries |-> r.entries, missedCount |-> r.missedCount + 1]
             ELSE [entries |-> <<[key |-> Head(keys), value |-> s[Head(keys)]]>>
                                  \o r.entries,
                   missedCount |-> r.missedCount]

\* what ReadVolMetadata does once the transaction has answered
ReadOutcomeNoPanic(s, keys) ==
    IF ReadLoop(s, keys).missedCount = Len(keys)
    THEN [ret |-> VolumeDoesNotExistError, out |-> << >>]
    ELSE [ret |-> "ok", out |-> ReadLoop(s, keys).entries]

ReadOutcome(s, keys) ==
    IF ReadLoop(s, keys).missedCount = Len(keys)
    THEN [ret |-> VolumeDoesNotExistError, out |-> << >>]
    ELSE IF ReadLoop(s, keys).missedCount > 0
         THEN [ret |-> "panic", out |-> << >>]
         ELSE [ret |-> "ok", out |-> ReadLoop(s, keys).entries]

\* ReadVolMetadata: with no client the call panics; there is no deadline
ReadVolMetadata(s, keys, client, reply) ==
    IF ~client
    THEN [ret |-> "crash", out |-> << >>]
    ELSE IF Await(reply, FALSE) = "ok"
         THEN ReadOutcome(s, keys)
         ELSE [ret |-> Await(reply, FALSE), out |-> << >>]

\* Txn().Then(OpDelete x 3).Commit(): the three keys of name are gone,
\* whether they were there or not
DeleteStoreStateOnly(s, name) ==
    [k \in (DOMAIN s) \ {StateKey(name)} |-> s[k]]

DeleteStore(s, name) ==
    [k \in (DOMAIN s) \ {StateKey(name), GRefKey(name), InfoKey(name)} |-> s[k]]

\* DeleteVolMetadata: with no client the call panics; there is no deadline
DeleteVolMetadata(s, name, client, reply) ==
    IF ~client
    THEN [ret |-> "crash", kv |-> s]
    ELSE IF Await(reply, FALSE) = "ok"
         THEN [ret |-> "ok", kv |-> DeleteStore(s, name)]
         ELSE [ret |-> Await(reply, FALSE), kv |-> s]

\* strings.HasPrefix: what WithPrefix selects
HasPrefix(str, prefix) ==
    Len(str) >= Len(prefix) /\ SubSeq(str, 1, Len(prefix)) = prefix

\* the characters of the keys, in byte order
Chars == "0123456789LOSV_aefgilnorstv"

Rank(c) == CHOOSE i \in 1..Len(Chars) : SubSeq(Chars, i, i) = c

\* byte-wise order of two keys
RECURSIVE StrLess(_, _)
StrLess(a, b) ==
    IF Len(b) = 0 THEN FALSE
    ELSE IF Len(a) = 0 THEN TRUE
    ELSE IF SubSeq(a, 1, 1) # SubSeq(b, 1, 1)
         THEN Rank(SubSeq(a, 1, 1)) < Rank(SubSeq(b, 1, 1))
         ELSE StrLess(SubSeq(a, 2, Len(a)), SubSeq(b, 2, Len(b)))

\* WithSort(SortByKey, SortDescend)
RECURSIVE SortDescend(_)
SortDescend(S) ==
    IF S = {} THEN << >>
    ELSE LET m == CHOOSE x \in S : \A y \in S : ~StrLess(x, y)
         IN  <<m>> \o SortDescend(S \ {m})

\* the prefix ListVolumeName scans
ListPrefixAll == "SVOLS_"

ListPrefix == etcdPrefixState

\* the names ListVolumeName returns when the range read answers
ListNames(s) ==
    LET kvs == SortDescend({k \in DOMAIN s : HasPrefix(k, ListPrefix)})
    IN  [i \in 1..Len(kvs) |-> TrimPrefix(kvs[i], etcdPrefixState)]

\* ListVolumeName: with no client it returns an error; the range read has
\* the deadline requestTimeout
ListVolumeName(s, client, reply) ==
    IF ~client
    THEN [ret |-> etcdClientCreateError, out |-> << >>]
    ELSE IF Await(reply, TRUE) = "ok"
         THEN [ret |-> "ok", out |-> ListNames(s)]
         ELSE [ret |-> Await(reply, TRUE), out |-> << >>]

\* one metadata API call, as one step: the call's record, the store and the
\* open clients after it, and the keys it changed
ApiStep(rec, kv, opn, changed, tag) ==
    /\ ncalls < MaxCalls
    /\ ncalls' = ncalls + 1
    /\ api' = rec
    /\ store' = kv
    /\ open' = opn
    /\ lastOp' = [k \in ApiKeys |-> IF k \in changed THEN tag[k] ELSE lastOp[k]]
    /\ UNCHANGED watcherVars
    /\ UNCHANGED boot

\* a caller writes entries; the client is closed when the call returns
\* (defer etcdAPI.Close())
WriteCall ==
    \E entries \in WriteInputs, o \in CallOutcomes :
        LET client == o.client
            r == WriteVolMetadata(store, entries, client, o.reply)
            ks == IF r.ret = "ok"
                  THEN {entries[i].key : i \in 1..Len(entries)} ELSE {}
        IN  ApiStep([NoCall EXCEPT !.op = "WriteVolMetadata",
                                   !.entries = entries,
                                   !.client = IF client THEN "fresh" ELSE "nil",
                                   !.reply = IF client THEN o.reply ELSE "",
                                   !.ret = r.ret],
                    r.kv, open, ks,
                    [k \in ks |->
                        [op |-> "WriteVolMetadata",
                         value |-> entries[CHOOSE i \in 1..Len(entries) :
                                               entries[i].key = k].value]])

\* a caller reads keys; the client is closed when the call returns
ReadCall ==
    \E keys \in ReadInputs, o \in CallOutcomes :
        LET client == o.client
            r == ReadVolMetadata(store, keys, client, o.reply)
        IN  ApiStep([NoCall EXCEPT !.op = "ReadVolMetadata",
                                   !.keys = keys,
                                   !.client = IF client THEN "fresh" ELSE "nil",
                                   !.reply = IF client THEN o.reply ELSE "",
                                   !.ret = r.ret,
                                   !.out = r.out],
                    store, open, {}, << >>)

\* a caller deletes a volume; the client is closed when the call returns
DeleteCall ==
    \E name \in ApiVols, o \in CallOutcomes :
        LET client == o.client
            r == DeleteVolMetadata(store, name, client, o.reply)
            ks == IF r.ret = "ok"
                  THEN {StateKey(name), GRefKey(name), InfoKey(name)} ELSE {}
        IN  ApiStep([NoCall EXCEPT !.op = "DeleteVolMetadata",
                                   !.name = name,
                                   !.client = IF client THEN "fresh" ELSE "nil",
                                   !.reply = IF client THEN o.reply ELSE "",
                                   !.ret = r.ret],
                    r.kv, open, ks,
                    [k \in ks |-> [op |-> "DeleteVolMetadata",
                                   value |-> IF Present(store, k)
                                             THEN store[k] ELSE ""]])

\* a caller lists the volumes; the client it creates is never closed
ListCall ==
    \E o \in CallOutcomes :
        LET client == o.client
            r == ListVolumeName(store, client, o.reply)
        IN  ApiStep([NoCall EXCEPT !.op = "ListVolumeName",
                                   !.client = IF client THEN "fresh" ELSE "nil",
                                   !.reply = IF client THEN o.reply ELSE "",
                                   !.ret = r.ret,
                                   !.out = r.out],
                    store, IF client THEN open + 1 ELSE open, {}, << >>)

\* a caller compares and puts the state of a volume, from one state to
\* another as every call of the handler does; the call uses e.client, the
\* client Init cached, and context.TODO()
CompareAndPutCall ==
    \E v \in ApiVols, oldVal \in StateValues, reply \in Replies :
      \E newVal \in StateValues \ {oldVal} :
        LET r == CompareAndPut(store, StateKey(v), oldVal, newVal,
                               Await(reply, FALSE) = "err")
            blocked == Await(reply, FALSE) = "blocked"
            ks == IF ~blocked /\ r.succeeded THEN {StateKey(v)} ELSE {}
        IN  ApiStep([NoCall EXCEPT !.op = "CompareAndPut",
                                   !.key = StateKey(v),
                                   !.oldVal = oldVal,
                                   !.newVal = newVal,
                                   !.client = "cached",
                                   !.reply = reply,
                                   !.ret = IF blocked THEN "blocked"
                                           ELSE IF r.succeeded THEN "true"
                                           ELSE "false"],
                    IF blocked THEN store ELSE r.kv, open, ks,
                    [k \in ks |-> [op |-> "", value |-> ""]])

(* ------------------- other writes of a refcount key ------------------- *)

\* the watch event of a delete, with the previous key-value
DeleteEvent(s, key) ==
    [type |-> EventTypeDelete, key |-> key, value |-> "",
     hasPrev |-> TRUE, prev |-> s[key]]

\* what a write of the driver that is no mount or unmount leaves alone
OtherWrite ==
    /\ Len(events) < MaxEvents
    /\ putCtx' = FALSE
    /\ Observe
    /\ UNCHANGED <<cursor, pc, succeeded, serving, smbCalls, faults, lastCall>>
    /\ UNCHANGED apiVars
    /\ UNCHANGED boot

\* a host writes the metadata of volume v back with the refcount it read:
\* a put of the unchanged value
RewriteGRef(v) ==
    /\ Present(store, GRefKey(v))
    /\ store' = WriteStore(store, <<[key |-> GRefKey(v),
                                     value |-> store[GRefKey(v)]]>>)
    /\ events' = Append(events, PutEvent(store, GRefKey(v), store[GRefKey(v)]))
    /\ OtherWrite

\* DeleteVolMetadata(v): the watchers of the prefix get the delete of GREF:v
DeleteVol(v) ==
    /\ Present(store, GRefKey(v))
    /\ store' = DeleteStore(store, v)
    /\ events' = Append(events, DeleteEvent(store, GRefKey(v)))
    /\ OtherWrite

\* WriteVolMetadata of the three keys of a volume that has none: the put of
\* GREF:v has no previous value
CreateVol(v, ref) ==
    /\ ~Present(store, GRefKey(v))
    /\ store' = WriteStore(store, << [key |-> StateKey(v), value |-> volStateReady],
                                     [key |-> GRefKey(v), value |-> ref],
                                     [key |-> InfoKey(v), value |-> "info"] >>)
    /\ events' = Append(events, PutEvent(store, GRefKey(v), ref))
    /\ OtherWrite

(* ------------------------- cluster bootstrap -------------------------- *)

\* swarm nodes: node 1 is the node that runs Init, node 2 the swarm leader
\* when node 1 is a manager that is not the leader
NodeID(i) == "node" \o Itoa(i)

NodeAddr(i) == "10.0.0." \o Itoa(i)

nodeID == NodeID(1)

nodeAddr == NodeAddr(1)

PeerURL(addr) == etcdScheme \o addr \o etcdPeerPort

\* peerAddr := etcdScheme + nodeAddr + etcdPeerPort
peerAddr == PeerURL(nodeAddr)

\* an etcd member as MemberList and MemberAdd return it; Name is empty until
\* the member has started
Member(id, name, addr) ==
    [ID |-> id, Name |-> name, PeerURLs |-> <<PeerURL(addr)>>]

\* what a node other than the leader is to the cluster: no member, a member
\* added and not started, a member that has started
MemberStates == {"none", "added", "started"}

MemberOf(i, st) ==
    IF st = "none"
    THEN << >>
    ELSE <<Member(i, IF st = "started" THEN NodeID(i) ELSE "", NodeAddr(i))>>

RECURSIVE OtherMembers(_, _)
OtherMembers(f, i) ==
    IF i > MaxMembers + 1
    THEN << >>
    ELSE MemberOf(i, f[i]) \o OtherMembers(f, i + 1)

\* the member lists the leader can hold when a manager joins: the leader,
\* this node in one of its three states, the other managers in one of theirs;
\* peer URLs are unique in a cluster
MemberLists ==
    {<<Member(2, NodeID(2), NodeAddr(2))>> \o MemberOf(1, f[1]) \o OtherMembers(f, 3) :
        f \in [{1} \cup (3..(MaxMembers + 1)) -> MemberStates]}

\* the roles docker Info and NodeInspectWithRaw report
Roles == {"worker", "leader", "manager"}

\* what the docker client answers Init: Info, NodeInspectWithRaw and NodeList
\* succeed or fail, the role of this node, and whether NodeList has a leader
OracleOutcomes ==
    [info : BOOLEAN, role : Roles, inspect : BOOLEAN, nodeList : BOOLEAN,
     leader : BOOLEAN]

\* Init up to the call of startEtcdCluster or joinEtcdCluster
InitDispatchWorkerStarts(o) ==
    IF ~o.info THEN [pc |-> "Done", ret |-> "err", fail |-> "info"]
    ELSE IF o.role = "worker" THEN [pc |-> "Start", ret |-> "", fail |-> ""]
    ELSE IF ~o.inspect THEN [pc |-> "Done", ret |-> "err", fail |-> "inspect"]
    ELSE IF o.role = "leader" THEN [pc |-> "Start", ret |-> "", fail |-> ""]
    ELSE IF ~o.nodeList THEN [pc |-> "Done", ret |-> "err", fail |-> "nodeList"]
    ELSE IF o.leader THEN [pc |-> "Join", ret |-> "", fail |-> ""]
    ELSE [pc |-> "Done", ret |-> "err", fail |-> "noLeader"]

InitDispatch(o) ==
    IF ~o.info THEN [pc |-> "Done", ret |-> "err", fail |-> "info"]
    ELSE IF o.role = "worker" THEN [pc |-> "Done", ret |-> "nil", fail |-> ""]
    ELSE IF ~o.inspect THEN [pc |-> "Done", ret |-> "err", fail |-> "inspect"]
    ELSE IF o.role = "leader" THEN [pc |-> "Start", ret |-> "", fail |-> ""]
    ELSE IF ~o.nodeList THEN [pc |-> "Done", ret |-> "err", fail |-> "nodeList"]
    ELSE IF o.leader THEN [pc |-> "Join", ret |-> "", fail |-> ""]
    ELSE [pc |-> "Done", ret |-> "err", fail |-> "noLeader"]

\* what Init returns once startEtcdCluster or joinEtcdCluster has returned:
\* the error of startEtcdCluster; nil after joinEtcdCluster, whose result is
\* dropped
InitReturn(role, err) ==
    IF role = "leader" /\ err THEN "err" ELSE "nil"

\* the first member of the list with this node's peer URL, 0 when none
FindSelf(members) ==
    LET I == {i \in 1..Len(members) : members[i].PeerURLs[1] = peerAddr}
    IN  IF I = {} THEN 0 ELSE CHOOSE i \in I : \A j \in I : i <= j

\* member.Name == "": already a member, not started
IsStaleNever(member) == FALSE

IsStale(member) == member.Name = ""

\* the cluster after MemberRemove(id)
MemberRemove(members, id) == SelectSeq(members, LAMBDA m : m.ID # id)

\* the cluster after MemberAdd(url): the new member has no name yet
MemberAdd(members, url) ==
    Append(members, [ID |-> 10 + Len(members), Name |-> "", PeerURLs |-> <<url>>])

\* what one request to the leader's etcd gives: a response, an error with a
\* response value, or an error with a nil response
RpcOutcomes == {"ok", "err", "errNil"}

\* member.Name + "=" + member.PeerURLs[0] + "," for the members with a name
ClusterEntryAny(member) == member.Name \o "=" \o member.PeerURLs[1] \o ","

ClusterEntry(member) ==
    IF member.Name # ""
    THEN member.Name \o "=" \o member.PeerURLs[1] \o ","
    ELSE ""

\* initCluster after the loop over the members of a response
RECURSIVE InitialCluster(_)
InitialCluster(members) ==
    IF Len(members) = 0
    THEN ""
    ELSE ClusterEntry(Head(members)) \o InitialCluster(Tail(members))

\* the cluster state startEtcdCluster passes
StartClusterStateExisting == etcdClusterStateExisting

StartClusterState == etcdClusterStateNew

\* the flags of the etcd process that differ between start and join, and
\* the number of member calls made before it is spawned
EtcdLines(initCluster, state) ==
    [name |-> nodeID,
     initialCluster |-> initCluster \o nodeID \o "=" \o peerAddr,
     clusterState |-> state,
     after |-> Len(boot.calls)]

\* the number of ticks of checkSleepDuration up to requestTimeout
MaxPolls == requestTimeout \div checkSleepDuration

BootStep(b) ==
    /\ boot' = b
    /\ UNCHANGED store
    /\ UNCHANGED watcherVars
    /\ UNCHANGED apiVars

\* Init returns
Returned(b, ret, fail) ==
    [b EXCEPT !.pc = "Done", !.ret = ret, !.fail = fail]

\* Init: asks docker who this node is and decides what to do
InitCall ==
    /\ boot.pc = "Init"
    /\ \E o \in OracleOutcomes :
         LET d == InitDispatch(o)
         IN  BootStep([boot EXCEPT !.pc = d.pc, !.ret = d.ret, !.fail = d.fail,
                                   !.role = IF o.info THEN o.role ELSE ""])

\* startEtcdCluster: spawn etcd as a new cluster of this node alone
startEtcdCluster ==
    /\ boot.pc = "Start"
    /\ BootStep([boot EXCEPT !.pc = "Poll",
                             !.lines = Append(@, EtcdLines("", StartClusterState))])

\* joinEtcdCluster: client to the leader and MemberList.  The error of
\* addrToEtcdClient is logged and the nil client used; an error of MemberList
\* is returned after len(lresp.Members) has been read for the log
JoinList ==
    /\ boot.pc = "Join"
    /\ \E cli \in BOOLEAN, o \in RpcOutcomes :
         IF ~cli
         THEN BootStep(Returned(boot, "crash", "client"))
         ELSE IF o = "errNil"
         THEN BootStep(Returned(boot, "crash", "list"))
         ELSE IF o = "err"
         THEN BootStep(Returned(boot, InitReturn(boot.role, TRUE), "list"))
         ELSE BootStep([boot EXCEPT !.pc = "Reconcile", !.lresp = boot.members])

\* joinEtcdCluster: the loop over the listed members
JoinReconcile ==
    /\ boot.pc = "Reconcile"
    /\ LET i == FindSelf(boot.lresp)
       IN  IF i = 0
           THEN BootStep([boot EXCEPT !.pc = "Add"])
           ELSE IF IsStale(boot.lresp[i])
           THEN BootStep([boot EXCEPT !.pc = "Add", !.existing = TRUE])
           ELSE \E o \in {"ok", "err"} :
                  IF o = "err"
                  THEN BootStep(Returned(boot, InitReturn(boot.role, TRUE), "remove"))
                  ELSE BootStep([boot EXCEPT
                         !.pc = "Add",
                         !.members = MemberRemove(@, boot.lresp[i].ID),
                         !.calls = Append(@, [op |-> "MemberRemove",
                                              arg |-> boot.lresp[i].ID])])

\* joinEtcdCluster: MemberAdd unless already a member, and initCluster
JoinAdd ==
    /\ boot.pc = "Add"
    /\ IF boot.existing
       THEN BootStep([boot EXCEPT !.pc = "Spawn",
                                  !.initCluster = InitialCluster(boot.lresp)])
       ELSE \E o \in RpcOutcomes :
              IF o = "errNil"
              THEN BootStep(Returned(boot, "crash", "add"))
              ELSE IF o = "err"
              THEN BootStep(Returned(boot, InitReturn(boot.role, TRUE), "add"))
              ELSE LET aresp == MemberAdd(boot.members, peerAddr)
                   IN  BootStep([boot EXCEPT
                          !.pc = "Spawn",
                          !.members = aresp,
                          !.calls = Append(@, [op |-> "MemberAdd", arg |-> peerAddr]),
                          !.initCluster = InitialCluster(aresp)])

\* joinEtcdCluster: spawn etcd as a member of the existing cluster
JoinSpawn ==
    /\ boot.pc = "Spawn"
    /\ BootStep([boot EXCEPT
           !.pc = "Poll",
           !.lines = Append(@, EtcdLines(boot.initCluster, etcdClusterStateExisting))])

\* checkLocalEtcd, case <-ticker.C: a client to the local etcd; on success
\* it is cached and the watcher started
Poll ==
    /\ boot.pc = "Poll"
    /\ boot.polls < MaxPolls
    /\ \E ok \in BOOLEAN :
         IF ok
         THEN BootStep([Returned(boot, InitReturn(boot.role, FALSE), "")
                           EXCEPT !.polls = @ + 1,
                                  !.client = TRUE,
                                  !.watchers = @ + 1])
         ELSE BootStep([boot EXCEPT !.polls = @ + 1])

\* checkLocalEtcd, case <-timer.C: the first tick comes before the timer
Timeout ==
    /\ boot.pc = "Poll"
    /\ boot.polls >= 1
    /\ BootStep(Returned(boot, InitReturn(boot.role, TRUE), "timeout"))

(* ------------------------------- Next --------------------------------- *)

Next ==
    \/ \E v \in Vols, delta \in {-1, 1} : WriteGRef(v, delta)
    \/ \E h \in Hosts : Claim(h)
    \/ \E h \in Hosts : StartSMB(h)
    \/ \E h \in Hosts : StopSMB(h)
    \/ \E h \in Hosts : SetError(h)

\* store requests always succeed
Spec == Init /\ [][Next]_vars

\* every running watcher keeps consuming its stream, and every store request
\* and SMB call of a handler returns
FairSpec == Spec /\ \A h \in Hosts : WF_vars(etcdEventHandler(h))

\* store requests may fail
SpecFaults == InitFaults /\ [][Next]_vars

NextEvents ==
    \/ Next
    \/ \E v \in Vols : RewriteGRef(v)
    \/ \E v \in Vols : DeleteVol(v)
    \/ \E v \in Vols, ref \in {etcdNoRef, etcdSingleRef} : CreateVol(v, ref)

\* the watchers with every kind of event the prefix can deliver
SpecEvents == Init /\ [][NextEvents]_vars

\* every volume the drivers use has been created, state Ready and global
\* refcount 0; the watchers are running
InitFrame ==
    /\ store = [k \in ApiKeys |->
                  IF k \in {StateKey(v) : v \in ApiVols} THEN volStateReady
                  ELSE IF k \in {GRefKey(v) : v \in ApiVols} THEN etcdNoRef
                  ELSE "info"]
    /\ InitCalls
    /\ events = << >>
    /\ putCtx = FALSE
    /\ cursor = [h \in Hosts |-> 0]
    /\ pc = [h \in Hosts |-> "idle"]
    /\ succeeded = [h \in Hosts |-> FALSE]
    /\ serving = [h \in Hosts |-> {}]
    /\ smbCalls = {}
    /\ nfa = [v \in ApiVols |-> {"P1"}]
    /\ nfaAlt = [v \in ApiVols |-> {"P"}]
    /\ enteredFrom = [v \in ApiVols |-> ""]
    /\ lastCall = [v \in ApiVols |-> [op |-> "", ok |-> FALSE]]
    /\ faults = FALSE

NextFrame ==
    \/ \E v \in ApiVols, delta \in {-1, 1} : WriteGRef(v, delta)
    \/ \E h \in Hosts : etcdEventHandler(h)

\* the watchers with the refcount puts of more than one volume in one stream
SpecFrame == InitFrame /\ [][NextFrame]_vars

\* Init is called once on a node, with the leader's cluster as it is
InitBoot ==
    /\ store = [k \in {} |-> ""]
    /\ api = NoCall
    /\ open = 0
    /\ lastOp = [k \in ApiKeys |-> [op |-> "", value |-> ""]]
    /\ ncalls = 0
    /\ events = << >>
    /\ putCtx = FALSE
    /\ cursor = [h \in Hosts |-> 0]
    /\ pc = [h \in Hosts |-> "idle"]
    /\ succeeded = [h \in Hosts |-> FALSE]
    /\ serving = [h \in Hosts |-> {}]
    /\ smbCalls = {}
    /\ nfa = [v \in Vols |-> {"P1"}]
    /\ nfaAlt = [v \in Vols |-> {"P"}]
    /\ enteredFrom = [v \in Vols |-> ""]
    /\ lastCall = [v \in Vols |-> [op |-> "", ok |-> FALSE]]
    /\ faults = FALSE
    /\ \E members \in MemberLists :
          boot = [NoBoot EXCEPT !.pc = "Init", !.members = members]

NextBoot ==
    \/ InitCall
    \/ startEtcdCluster
    \/ JoinList
    \/ JoinReconcile
    \/ JoinAdd
    \/ JoinSpawn
    \/ Poll
    \/ Timeout

\* Init of the kv store on one node
SpecBoot == InitBoot /\ [][NextBoot]_vars

NextAPI ==
    \/ WriteCall
    \/ ReadCall
    \/ DeleteCall
    \/ ListCall
    \/ CompareAndPutCall

\* the metadata API called by the volume driver, each call one step
SpecAPI == InitAPI /\ [][NextAPI]_vars

(* ------------------------------ claims -------------------------------- *)

State(v) == StateOf(store, v)

\* the volume event i is about
EventVol(i) == TrimPrefix(events[i].key, etcdPrefixGRef)

\* event i is one of the two boundary transitions of a global refcount
Boundary(i) == IsSingleRef(events[i]) \/ IsNoRef(events[i])

\* the SMB calls made by the handlers of event i
Calls(i) == {c \in smbCalls : c.ev = i}

\* every watcher has finished the handler of event i
HandledByAll(i) == \A h \in Hosts : cursor[h] >= i

\* the hosts between a successful claim on STATE:v and the end of the handler
Holders(v) == {h \in Hosts : pc[h] # "idle" /\ CurVol(h) = v}

\* the hosts on which an SMB server for v runs
Servers(v) == {h \in Hosts : v \in serving[h]}

\* C1: for every boundary event of a global refcount, at most one host's
\* watcher makes the SMB call, and once every watcher has handled the event
\* exactly one has made it (a volume parked in Error is left aside: there no
\* watcher acts, see C6).
C1_ExactlyOneSideEffect ==
    \A i \in 1..Len(events) :
        Boundary(i) =>
            /\ Cardinality(Calls(i)) <= 1
            /\ (HandledByAll(i) /\ State(EventVol(i)) # volStateError)
                   => Cardinality(Calls(i)) = 1

LostClaim(h) ==
    /\ pc[h] = "idle"
    /\ cursor[h] < Len(events)
    /\ Boundary(cursor[h] + 1)
    /\ pc'[h] # pc[h] \/ cursor'[h] # cursor[h]
    /\ ~succeeded'[h]

\* C3: a handler whose claim returns false returns at once: it makes no SMB
\* call, starts or stops no server and writes nothing to the store.
C3_LoserHasNoSideEffect ==
    [][\A h \in Hosts :
          LostClaim(h) =>
              /\ pc'[h] = "idle"
              /\ cursor'[h] = cursor[h] + 1
              /\ store' = store
              /\ smbCalls' = smbCalls
              /\ serving' = serving]_vars

\* one host has lost the claim of the first event, which the other host won
C3_Witness ==
    \E h \in Hosts, g \in Hosts :
        /\ Len(events) >= 1
        /\ Boundary(1)
        /\ cursor[h] = 1 /\ pc[h] = "idle"
        /\ cursor[g] = 0 /\ pc[g] = "start"
        /\ Calls(1) = {}

\* C4 as documented: the values of STATE:v follow
\* Ready (-> Intermediate -> (Mounted | Error))* (-> Intermediate -> (Ready | Error))*
\* (stated for the runs in which no event has had its SMB call made twice,
\* so that a violation owes nothing to the repeated calls of C1)
C4_DocumentedLifecycle ==
    (\A i \in 1..Len(events) : Cardinality(Calls(i)) <= 1)
        => \A v \in Vols : nfa[v] # {}

\* C4 as amended: the values of STATE:v follow
\* Ready ((-> Intermediate -> (Mounted | Error)) | (-> Intermediate -> (Ready | Error)))*
C4_AlternatingLifecycle == \A v \in Vols : nfaAlt[v] # {}

\* a volume is mounted again after an unmount, which the documented
\* expression has no place for
C4_Witness ==
    \E v \in Vols : nfa[v] = {} /\ State(v) = volStateMounted

WatcherSteps ==
    { <<volStateReady, volStateIntermediate>>,
      <<volStateIntermediate, volStateMounted>>,
      <<volStateMounted, volStateIntermediate>>,
      <<volStateIntermediate, volStateReady>>,
      <<volStateIntermediate, volStateError>> }

\* C5: every change of STATE:v is Ready -> Intermediate, Intermediate ->
\* Mounted, Mounted -> Intermediate, Intermediate -> Ready or Intermediate
\* -> Error; it becomes Mounted only from an Intermediate entered from
\* Ready, and Ready only from an Intermediate entered from Mounted.
C5_OnlyLifecycleSteps ==
    [][\A v \in Vols :
          State(v)' # State(v) =>
              /\ <<State(v), State(v)'>> \in WatcherSteps
              /\ State(v)' = volStateMounted => enteredFrom[v] = volStateReady
              /\ State(v)' = volStateReady => enteredFrom[v] = volStateMounted]_vars

\* a volume is Ready again after it was Mounted
C5_Witness ==
    \E v \in Vols : State(v) = volStateReady /\ enteredFrom[v] = volStateMounted

\* C6: once STATE:v is Error no watcher changes it and no watcher makes an
\* SMB call for v.
C6_ErrorIsSink ==
    [][\A v \in Vols :
          State(v) = volStateError =>
              /\ State(v)' = volStateError
              /\ {c \in smbCalls' : c.vol = v} = {c \in smbCalls : c.vol = v}]_vars

\* a watcher has handled a later boundary event of a volume parked in Error
C6_Witness ==
    \E c \in smbCalls, h \in Hosts :
        /\ ~c.ok
        /\ State(c.vol) = volStateError
        /\ cursor[h] > c.ev
        /\ Boundary(cursor[h])
        /\ EventVol(cursor[h]) = c.vol

\* event i is the latest event, it is the put of 1 over 0 on a volume that
\* was Ready, and no watcher had anything left to handle when it was put
CleanMount(i) == Len(events) = i /\ putCtx /\ IsSingleRef(events[i])

\* the same for the put of 0 over 1 on a volume that was Mounted
CleanUnmount(i) == Len(events) = i /\ putCtx /\ IsNoRef(events[i])

C10_StateTellsWhoServes ==
    \A v \in Vols :
        /\ Cardinality(Servers(v)) <= 1
        /\ State(v) = volStateMounted => Cardinality(Servers(v)) = 1
        /\ State(v) = volStateReady => Servers(v) = {}

\* the SMB calls the step makes for volume v
NewCalls(v) == {c \in smbCalls' \ smbCalls : c.vol = v}

\* C11: over all hosts the SMB calls for one volume alternate, starting with
\* Start: startSMBServer is called only when no call was made yet or the
\* latest call was a stop, and stopSMBServer only when the latest call was a
\* start that returned true.
C11_NoRedundantCall ==
    [][\A v \in Vols : \A c \in NewCalls(v) :
          /\ c.op = "Start" => lastCall[v].op \in {"", "Stop"}
          /\ c.op = "Stop" => lastCall[v] = [op |-> "Start", ok |-> TRUE]]_vars

\* a volume was started, stopped and started again
C11_Witness ==
    \E v \in Vols :
        /\ lastCall[v] = [op |-> "Start", ok |-> TRUE]
        /\ \E c \in smbCalls : c.vol = v /\ c.op = "Stop" /\ c.ok
        /\ Cardinality({c \in smbCalls : c.vol = v /\ c.op = "Start"}) = 2

(* ------------------------ claims: metadata API ------------------------ *)

\* the step is a metadata API call of the kind op
IsCall(op) == ncalls' = ncalls + 1 /\ api'.op = op

\* the latest call had its client and the store applied and answered its
\* request
Answered == api.client # "nil" /\ api.reply = "ok"

\* the keys of a list of kvPairs
KeysOf(entries) == {entries[i].key : i \in 1..Len(entries)}

\* C12: a ReadVolMetadata of one or more keys that the store answers has
\* one of three outcomes: every key present, one entry per requested key in
\* request order with the stored value; every key missing, the error
\* VolumeDoesNotExist; some but not all missing, a panic and no data.
C12_ReadOutcomes ==
    (api.op = "ReadVolMetadata" /\ Answered /\ Len(api.keys) > 0) =>
        LET found == {i \in 1..Len(api.keys) : api.keys[i] \in DOMAIN store}
        IN  /\ found = 1..Len(api.keys) =>
                /\ api.ret = "ok"
                /\ Len(api.out) = Len(api.keys)
                /\ \A i \in 1..Len(api.keys) :
                      api.out[i] = [key |-> api.keys[i],
                                    value |-> store[api.keys[i]]]
            /\ found = {} =>
                /\ api.ret = VolumeDoesNotExistError
                /\ Len(api.out) = 0
            /\ (found # {} /\ found # 1..Len(api.keys)) =>
                /\ api.ret = "panic"
                /\ Len(api.out) = 0

\* only the state key of a volume was written, and the read of its three
\* keys panicked
C12_Witness ==
    \E v \in ApiVols :
        /\ api.op = "ReadVolMetadata"
        /\ api.keys = VolKeys(v)
        /\ api.ret = "panic"
        /\ StateKey(v) \in DOMAIN store
        /\ GRefKey(v) \notin DOMAIN store

\* C13: a WriteVolMetadata call changes the store in one step: when it
\* succeeds every entry is written and no other key changes, otherwise the
\* store is as before; no state in between exists for another call to see.
C13_WriteIsAtomic ==
    [][IsCall("WriteVolMetadata") =>
          IF api'.ret = "ok"
          THEN /\ DOMAIN store' = (DOMAIN store) \cup KeysOf(api'.entries)
               /\ \A i \in 1..Len(api'.entries) :
                     store'[api'.entries[i].key] = api'.entries[i].value
               /\ \A k \in (DOMAIN store) \ KeysOf(api'.entries) :
                     store'[k] = store[k]
          ELSE store' = store]_vars

\* the three keys of a volume were written by one call, over a store that
\* had none of them
C13_Witness ==
    \E v \in ApiVols :
        /\ api.op = "WriteVolMetadata"
        /\ api.ret = "ok"
        /\ KeysOf(api.entries) = {StateKey(v), GRefKey(v), InfoKey(v)}
        /\ \A k \in KeysOf(api.entries) : lastOp[k].op = "WriteVolMetadata"
        /\ ncalls = 1

\* C14: a DeleteVolMetadata the store answers succeeds and leaves none of
\* the three keys of the volume, whether they were present or not, and
\* changes no other key; a ReadVolMetadata of the three keys that the store
\* answers, made while the delete is the latest change of each of them,
\* returns VolumeDoesNotExist.
C14_DeleteThenRead ==
    [][/\ IsCall("DeleteVolMetadata") /\ api'.client # "nil" /\ api'.reply = "ok" =>
            /\ api'.ret = "ok"
            /\ DOMAIN store' = (DOMAIN store) \
                   {StateKey(api'.name), GRefKey(api'.name), InfoKey(api'.name)}
            /\ \A k \in DOMAIN store' : store'[k] = store[k]
       /\ \A v \in ApiVols :
            (/\ IsCall("ReadVolMetadata") /\ api'.client # "nil" /\ api'.reply = "ok"
             /\ api'.keys = VolKeys(v)
             /\ \A i \in 1..3 : lastOp[VolKeys(v)[i]].op = "DeleteVolMetadata")
                => api'.ret = VolumeDoesNotExistError]_vars

\* write, delete, read: the volume was written, then deleted, and the read
\* of its three keys returned VolumeDoesNotExist
C14_Witness ==
    \E v \in ApiVols :
        /\ api.op = "ReadVolMetadata"
        /\ api.keys = VolKeys(v)
        /\ api.ret = VolumeDoesNotExistError
        /\ \A i \in 1..3 : lastOp[VolKeys(v)[i]].op = "DeleteVolMetadata"
        /\ lastOp[StateKey(v)].value # ""

\* C15: a ReadVolMetadata of one or more keys that the store answers, made
\* while a successful WriteVolMetadata is the latest change of each of them,
\* returns exactly the entries written, in the order of the request.
C15_RoundTrip ==
    (/\ api.op = "ReadVolMetadata" /\ Answered /\ Len(api.keys) > 0
     /\ \A i \in 1..Len(api.keys) : lastOp[api.keys[i]].op = "WriteVolMetadata")
        => /\ api.ret = "ok"
           /\ Len(api.out) = Len(api.keys)
           /\ \A i \in 1..Len(api.keys) :
                 api.out[i] = [key |-> api.keys[i],
                               value |-> lastOp[api.keys[i]].value]

\* the three keys of a volume were written with the state Mounted and read
\* back
C15_Witness ==
    \E v \in ApiVols :
        /\ api.op = "ReadVolMetadata"
        /\ api.ret = "ok"
        /\ Len(api.keys) = 3
        /\ api.out[1] = [key |-> api.keys[1], value |-> lastOp[api.keys[1]].value]
        /\ lastOp[StateKey(v)] = [op |-> "WriteVolMetadata", value |-> volStateMounted]
        /\ StateKey(v) \in {api.keys[i] : i \in 1..3}

\* C16: a ListVolumeName the store answers returns the names v whose key
\* STATE:v exists, each once, without the prefix, in descending order of
\* the key; no other key adds a name.
C16_ListIsStateKeys ==
    (api.op = "ListVolumeName" /\ Answered) =>
        /\ api.ret = "ok"
        /\ {api.out[i] : i \in 1..Len(api.out)}
               = {v \in ApiVols : StateKey(v) \in DOMAIN store}
        /\ Len(api.out) = Cardinality({v \in ApiVols : StateKey(v) \in DOMAIN store})
        /\ \A i \in 1..Len(api.out), j \in 1..Len(api.out) :
              i < j => StrLess(StateKey(api.out[j]), StateKey(api.out[i]))

\* two volumes are listed, the greater key first, while a refcount key is
\* in the store
C16_Witness ==
    /\ api.op = "ListVolumeName"
    /\ api.ret = "ok"
    /\ Len(api.out) = 2
    /\ StrLess(StateKey(api.out[2]), StateKey(api.out[1]))
    /\ \E v \in ApiVols : GRefKey(v) \in DOMAIN store

\* C17: CompareAndPut returns true exactly when the store applied the
\* transaction while the value of the key was oldVal, and the value is then
\* newVal; when it returns false the store is as before: the value is not
\* changed and no key is created.
C17_CompareAndPut ==
    [][(IsCall("CompareAndPut") /\ api'.ret # "blocked") =>
          LET key == api'.key
          IN  /\ api'.ret = "true" <=>
                    /\ api'.reply = "ok"
                    /\ key \in DOMAIN store
                    /\ store[key] = api'.oldVal
              /\ api'.ret = "true" =>
                    /\ DOMAIN store' = DOMAIN store
                    /\ store'[key] = api'.newVal
                    /\ \A k \in (DOMAIN store) \ {key} : store'[k] = store[k]
              /\ api'.ret = "false" => store' = store]_vars

\* a compare-and-put changed the state of a volume
C17_Witness ==
    /\ api.op = "CompareAndPut"
    /\ api.ret = "true"
    /\ api.oldVal # api.newVal
    /\ store[api.key] = api.newVal

\* C18: every metadata API call that returns has used a client created in
\* the call, and no client it created is open after it.
C18_FreshClientPerCall ==
    (api.op # "" /\ api.ret \notin {"blocked", "crash", "panic"}) =>
        /\ api.client # "cached"
        /\ open = 0

\* C19: WriteVolMetadata, ReadVolMetadata and DeleteVolMetadata return an
\* error and leave the store unchanged when no client can be created or the
\* store answers with an error.
C19_FailuresAreErrors ==
    [][(/\ \/ IsCall("WriteVolMetadata")
           \/ IsCall("ReadVolMetadata")
           \/ IsCall("DeleteVolMetadata")
        /\ api'.client = "nil" \/ api'.reply = "err")
          => /\ api'.ret \in {"err", etcdClientCreateError}
             /\ store' = store]_vars

\* C20: no metadata API call waits for ever: when the store never answers,
\* the call returns a failure.
C20_EveryCallReturns ==
    api.reply = "none" => api.ret \in {"err", "false"}
(* ------------------- claims: watcher, second part --------------------- *)

\* the step has host h make an SMB call that returns true
OkCall(h) ==
    \E c \in smbCalls' \ smbCalls : c.host = h /\ c.ok

\* the events the handler is to act on: a put with a previous value, of 1
\* over 0 or of 0 over 1
ActsOn(ev) ==
    /\ ev.type = "PUT"
    /\ ev.hasPrev
    /\ <<ev.prev, ev.value>> \in {<<"0", "1">>, <<"1", "0">>}

\* C26: a handler that takes an event which is not a put of 1 over 0 or of
\* 0 over 1 returns at once, with no store write and no SMB call; the steps
\* of a handler past its filter are all for such a put.
C26_EventFilter ==
    [][\A h \in Hosts :
          (pc'[h] # pc[h] \/ cursor'[h] # cursor[h]) =>
              \/ ActsOn(CurEvent(h))
              \/ /\ pc[h] = "idle"
                 /\ pc'[h] = "idle"
                 /\ store' = store
                 /\ smbCalls' = smbCalls
                 /\ serving' = serving]_vars

\* a watcher has dropped a delete, a put of 1 with no previous value and a
\* put of the unchanged value; nothing was called and the volume is Ready
C26_Witness ==
    \E h \in Hosts :
        /\ Len(events) = 3
        /\ cursor[h] = 3
        /\ events[1].type = EventTypeDelete
        /\ events[2].type = EventTypePut /\ ~events[2].hasPrev
        /\ events[2].value = etcdSingleRef
        /\ events[3].type = EventTypePut /\ events[3].prev = events[3].value
        /\ smbCalls = {}
        /\ State(EventVol(1)) = volStateReady

\* C27: on one host events are handled one at a time and in the order of
\* the stream: the stream only grows at its end, a watcher's position moves
\* by one event and only when its handler returns, a handler is entered only
\* from the idle loop, and every SMB call of a handler is made for the event
\* next to the watcher's position.
C27_SequentialHandling ==
    [][/\ \/ events' = events
          \/ Len(events') = Len(events) + 1 /\ SubSeq(events', 1, Len(events)) = events
       /\ \A h \in Hosts :
            /\ cursor'[h] \in {cursor[h], cursor[h] + 1}
            /\ cursor'[h] = cursor[h] + 1 => pc'[h] = "idle" /\ cursor[h] < Len(events)
            /\ (pc[h] # "idle" /\ pc'[h] = "idle") => cursor'[h] = cursor[h] + 1
            /\ (pc[h] = "idle" /\ pc'[h] # "idle") =>
                    cursor'[h] = cursor[h] /\ pc'[h] \in {"start", "stop"}
            /\ \A c \in smbCalls' \ smbCalls :
                    c.host = h => /\ c.ev = cursor[h] + 1
                                  /\ pc[h] \in {"start", "stop"}]_vars

\* one host has made the SMB calls of the first and of the second event, and
\* has finished both handlers
C27_Witness ==
    \E h \in Hosts :
        /\ cursor[h] = 2
        /\ pc[h] = "idle"
        /\ \E c \in Calls(1) : c.host = h
        /\ \E c \in Calls(2) : c.host = h

\* C28 as documented: after an SMB call that returned true the handler
\* never reaches the compare-and-put to Error.
C28_FallbackUnreachable ==
    [][\A h \in Hosts : OkCall(h) => pc'[h] # "error"]_vars

\* C28: with only watchers writing STATE, STATE:v is Intermediate when the
\* holder of the claim makes the compare-and-put that completes a successful
\* SMB call; that compare-and-put returns false, and the handler goes on to
\* the compare-and-put to Error, only when the store request fails, and then
\* the store is unchanged.
C28_FallbackOnStoreErrorOnly ==
    [][\A h \in Hosts :
          OkCall(h) =>
              /\ State(CurVol(h)) = volStateIntermediate
              /\ pc'[h] = "error" => (faults /\ store' = store)
              /\ pc'[h] # "error" =>
                    StateOf(store', CurVol(h)) \in {volStateMounted, volStateReady}]_vars

\* a handler whose SMB call returned true is at the compare-and-put to Error
C28_Witness ==
    \E h \in Hosts :
        /\ pc[h] = "error"
        /\ \E c \in smbCalls : c.host = h /\ c.ev = cursor[h] + 1 /\ c.ok
        /\ State(CurVol(h)) = volStateIntermediate

\* C29: STATE:v is Intermediate only while some host is inside a handler for
\* v, between its claim and its return.
C29_IntermediateIsTransient ==
    \A v \in Vols : State(v) = volStateIntermediate => Holders(v) # {}

RECURSIVE Split(_, _)
Split(str, sep) ==
    LET I == {i \in 1..Len(str) : SubSeq(str, i, i) = sep}
    IN  IF I = {}
        THEN <<str>>
        ELSE LET i == CHOOSE i \in I : \A j \in I : i <= j
             IN  <<SubSeq(str, 1, i - 1)>> \o Split(SubSeq(str, i + 1, Len(str)), sep)

\* C21: on a worker Init returns nil at once: no etcd is spawned, no member
\* call is made, no client is cached and no watcher is started.
C21_WorkerDoesNothing ==
    boot.role = "worker" =>
        /\ boot.pc = "Done"
        /\ boot.ret = "nil"
        /\ boot.lines = << >>
        /\ boot.calls = << >>
        /\ ~boot.client
        /\ boot.watchers = 0
        /\ boot.polls = 0

\* Init has returned nil on a worker
C21_Witness ==
    boot.role = "worker" /\ boot.ret = "nil" /\ boot.pc = "Done"

\* C22: on the leader etcd is spawned once, as a new cluster whose
\* initial-cluster is this node alone, before the first poll; the client is
\* cached and the watcher started on the first connection that succeeds, at
\* most one watcher is started, Init returns nil only then; when the timer
\* fires first Init returns an error with no watcher and no client.
C22_LeaderBootstrap ==
    boot.role = "leader" =>
        /\ boot.watchers <= 1
        /\ boot.client <=> boot.watchers = 1
        /\ boot.watchers = 1 =>
              /\ boot.pc = "Done" /\ boot.ret = "nil" /\ boot.fail = ""
              /\ boot.polls \in 1..MaxPolls
        /\ boot.ret = "nil" => boot.watchers = 1
        /\ (boot.pc = "Poll" \/ boot.polls > 0 \/ boot.watchers > 0) =>
              boot.lines = << [name |-> nodeID,
                               initialCluster |-> nodeID \o "=" \o peerAddr,
                               clusterState |-> "new",
                               after |-> 0] >>
        /\ boot.fail = "timeout" =>
              /\ boot.ret = "err" /\ boot.watchers = 0 /\ ~boot.client
        /\ boot.calls = << >>

\* the leader's third connection succeeded
C22_Witness ==
    /\ boot.role = "leader"
    /\ boot.ret = "nil"
    /\ boot.polls = 3
    /\ boot.watchers = 1
    /\ boot.client

\* C23: on a manager that is not the leader Init does not crash, returns an
\* error whenever a step of the join failed, and returns nil only with the
\* watcher started.
C23_FollowerFailsCleanly ==
    (boot.role = "manager" /\ boot.pc = "Done") =>
        /\ boot.ret # "crash"
        /\ boot.fail # "" => boot.ret = "err"
        /\ boot.ret = "nil" => boot.watchers = 1

\* the member calls the listed members ask for
ExpectedCalls(lresp) ==
    LET mine == {i \in 1..Len(lresp) : lresp[i].PeerURLs[1] = peerAddr}
        add == [op |-> "MemberAdd", arg |-> peerAddr]
    IN  IF mine = {} THEN <<add>>
        ELSE IF \E i \in mine : lresp[i].Name = "" THEN << >>
        ELSE <<[op |-> "MemberRemove", arg |-> lresp[CHOOSE i \in mine : TRUE].ID],
               add>>

\* C24: with a listed member of this node's peer URL and an empty Name no
\* member call is made; with one of a non-empty Name, MemberRemove of its ID
\* and then MemberAdd of the peer URL; with none, MemberAdd alone.  etcd is
\* spawned once, after these calls, with cluster-state existing.
C24_Reconciliation ==
    boot.role = "manager" =>
        LET expected == ExpectedCalls(boot.lresp)
        IN  /\ Len(boot.calls) <= Len(expected)
            /\ boot.calls = SubSeq(expected, 1, Len(boot.calls))
            /\ Len(boot.lines) <= 1
            /\ Len(boot.lines) = 1 =>
                  /\ boot.calls = expected
                  /\ boot.lines[1].after = Len(expected)
                  /\ boot.lines[1].clusterState = "existing"

\* this node was listed with a name: it was removed and added, then etcd
\* was spawned
C24_Witness ==
    /\ boot.role = "manager"
    /\ Len(boot.calls) = 2
    /\ boot.calls[1].op = "MemberRemove"
    /\ boot.calls[2].op = "MemberAdd"
    /\ Len(boot.lines) = 1
    /\ boot.lines[1].clusterState = "existing"

\* C25: the initial-cluster string of a joining manager has one entry
\* Name=peerURL for every member of the cluster with a non-empty Name (the
\* cluster after MemberAdd when this node was added, as listed when not) and
\* one for this node, and no other entry.
C25_InitialCluster ==
    (boot.role = "manager" /\ Len(boot.lines) = 1) =>
        LET entries == Split(boot.lines[1].initialCluster, ",")
            named == {i \in 1..Len(boot.members) : boot.members[i].Name # ""}
            self == nodeID \o "=" \o peerAddr
        IN  /\ {entries[i] : i \in 1..Len(entries)} =
                   {boot.members[i].Name \o "=" \o boot.members[i].PeerURLs[1] :
                        i \in named} \cup {self}
            /\ Len(entries) = Cardinality(named) + 1
            /\ Cardinality({i \in 1..Len(entries) : entries[i] = self}) = 1

\* this node was listed with a name and another member is not started: the
\* string names the leader and this node
C25_Witness ==
    /\ boot.role = "manager"
    /\ Len(boot.lines) = 1
    /\ Len(boot.calls) = 2
    /\ \E i \in 1..Len(boot.members) :
          boot.members[i].Name = "" /\ boot.members[i].PeerURLs[1] # peerAddr
    /\ boot.lines[1].initialCluster =
          "node2=http://10.0.0.2:2380,node1=http://10.0.0.1:2380"
(* ----------------------- claims: keys of a volume --------------------- *)

\* C31: a step of the handler of an event on GREF:V changes no key of the
\* store but STATE:V: no other key is written, created or deleted.
C31_WatcherFrame ==
    [][\A h \in Hosts :
          (pc'[h] # pc[h] \/ cursor'[h] # cursor[h]) =>
              LET V == EventVol(cursor[h] + 1)
              IN  /\ DOMAIN store' = DOMAIN store
                  /\ \A k \in DOMAIN store :
                        k # StateKey(V) => store'[k] = store[k]]_vars

\* the handlers of the puts of two volumes have each started the SMB server
\* and taken their own volume to Mounted
C31_Witness ==
    /\ Len(events) >= 2
    /\ EventVol(1) # EventVol(2)
    /\ State(EventVol(1)) = volStateMounted
    /\ State(EventVol(2)) = volStateMounted
    /\ \E c \in Calls(1) : c.op = "Start" /\ c.ok
    /\ \E c \in Calls(2) : c.op = "Start" /\ c.ok

\* C32: every volume has its three keys or none of them, so that a
\* ReadVolMetadata of the three keys does not end in the panic for a partial
\* set of keys.
C32_AllOrNone ==
    \A v \in Vols :
        /\ \/ {StateKey(v), GRefKey(v), InfoKey(v)} \subseteq DOMAIN store
           \/ {StateKey(v), GRefKey(v), InfoKey(v)} \cap DOMAIN store = {}
        /\ ReadOutcome(store, VolKeys(v)).ret # "panic"

\* the volume was deleted before any watcher made its claim for the put of
\* 1 over 0: every watcher has handled the put, none has called the SMB
\* server, and the volume has no key
C32_Witness ==
    \E v \in Vols :
        /\ Len(events) >= 2
        /\ IsSingleRef(events[1])
        /\ EventVol(1) = v
        /\ events[2].type = EventTypeDelete
        /\ \A h \in Hosts : cursor[h] >= 1
        /\ Calls(1) = {}
        /\ {StateKey(v), GRefKey(v), InfoKey(v)} \cap DOMAIN store = {}
====
